---- MODULE Spec2Model ----
(***************************************************************************)
(* The User ID controller of the key server (src/ctrl/user-id.js): the     *)
(* generator methods batch, getVerfied and remove of class UserId, run     *)
(* against the document store they are handed at construction.  A call is  *)
(* a generator: it runs synchronously up to a `yield` of a store request,  *)
(* is suspended while the store serves the request, and is resumed with    *)
(* the store's answer.  Several calls may be suspended at the same time.   *)
(***************************************************************************)
EXTENDS FiniteSets, Integers, Sequences, TLC

VARIABLES store, calls

vars == <<store, calls>>

(* ---------------------------------------------------------------- bounds *)

\* the largest number of documents the collection holds
MaxStore == 2
\* the longest options.userIds handed to batch
MaxBatch == 2
\* the longest options.userIds handed to getVerfied
MaxCands == 2

(* ------------------------------------------------------------ the values *)

DB_TYPE == "userid"

\* the callers that may each have one call of the controller in flight
Procs == {"c1", "c2"}

Emails == {"a@x", "b@x"}

KeyIds == {"ABCD", "02C1"}

\* a falsy options.keyid (undefined or the empty string)
NoKey == ""

\* the value of a generator that ends without a return statement, and of
\* Array.prototype.find when no element satisfies the predicate
Undefined == [undefined |-> TRUE]

\* a document of the collection has the format of the file's header comment,
\* [id, email, keyid, verified]; name and nonce are carried through unread and
\* are left out
\* the user ids a caller may hand to batch: no _id yet, any keyid or none
Drafts == [email : Emails, keyid : KeyIds \cup {NoKey}, verified : BOOLEAN]

\* the user ids a caller hands to getVerfied: only their email is read
Candidates == [email : Emails]

SeqsUpTo(S, n) == UNION {[1..k -> S] : k \in 0..n}

Idle == [op |-> "idle", pc |-> "idle", keyid |-> NoKey, hasUserIds |-> FALSE,
         userIds |-> <<>>, idx |-> 0, reqs |-> <<>>, outcome |-> "none",
         result |-> Undefined]

(* ------------------------------------------------------- the store (mongo) *)

\* the documents matching an equality filter on one field
Matching(field, value) == {d \in store : d[field] = value}

\* every order in which the store may hand back a set of documents
Orderings(S) == {s \in [1..Cardinality(S) -> S] : \A d \in S : \E i \in DOMAIN s : s[i] = d}

\* mongo.list(filter, type): all matching documents, in the store's order
MongoList(req) == Orderings(Matching(req.field, req.value))

\* the ids the store assigns to n new documents: the n smallest unused
RECURSIVE FreshIds(_, _)
FreshIds(used, n) ==
  IF n = 0 THEN <<>>
  ELSE LET i == CHOOSE j \in 1..(MaxStore + MaxBatch) :
                  j \notin used /\ \A k \in 1..(j - 1) : k \in used
       IN  <<i>> \o FreshIds(used \cup {i}, n - 1)

\* mongo.batch(docs, type) when the store inserts the documents at indices S:
\* the documents added to the collection
MongoBatch(docs, S) ==
  LET order == CHOOSE s \in [1..Cardinality(S) -> S] :
                 \A i, j \in DOMAIN s : i < j => s[i] < s[j]
      ids   == FreshIds({d.id : d \in store}, Cardinality(S))
  IN  {[id |-> ids[k], email |-> docs[order[k]].email,
        keyid |-> docs[order[k]].keyid, verified |-> docs[order[k]].verified]
         : k \in 1..Cardinality(S)}

\* mongo.remove(filter, type): the collection without the matching documents
MongoRemove(req) == store \ Matching(req.field, req.value)

(* ------------------------------------------------------ UserId: helpers *)

\* SetKeyid with the key id set on the first user id only
SetKeyid_FirstOnly(userIds, keyid) ==
  [i \in DOMAIN userIds |->
     IF i = 1 THEN [userIds[i] EXCEPT !.keyid = keyid] ELSE userIds[i]]

\* options.userIds.forEach(u => u.keyid = options.keyid)
SetKeyid(userIds, keyid) ==
  [i \in DOMAIN userIds |-> [userIds[i] EXCEPT !.keyid = keyid]]

\* FindVerified taking the first document of the answer, verified or not
FindVerified_First(uids) == IF uids # <<>> THEN uids[1] ELSE Undefined

\* uids.find(u => u.verified)
FindVerified(uids) ==
  IF \E i \in DOMAIN uids : uids[i].verified
  THEN uids[CHOOSE i \in DOMAIN uids :
              uids[i].verified /\ \A j \in 1..(i - 1) : ~uids[j].verified]
  ELSE Undefined

ListReq(field, value) == [kind |-> "list", field |-> field, value |-> value, type |-> DB_TYPE]

\* NextCandidate ending the scan at the first user id without a verified document
NextCandidate_Stop(c, i) ==
  IF c.hasUserIds /\ i < Len(c.userIds) /\ i = 0
  THEN [c EXCEPT !.pc = "wait", !.idx = i + 1,
                 !.reqs = Append(@, ListReq("email", c.userIds[i + 1].email))]
  ELSE [c EXCEPT !.pc = "done", !.outcome = "returned", !.result = Undefined]

\* NextCandidate trying the emails only when no key id was given (else if)
NextCandidate_ElseIf(c, i) ==
  IF c.hasUserIds /\ i < Len(c.userIds) /\ c.keyid = NoKey
  THEN [c EXCEPT !.pc = "wait", !.idx = i + 1,
                 !.reqs = Append(@, ListReq("email", c.userIds[i + 1].email))]
  ELSE [c EXCEPT !.pc = "done", !.outcome = "returned", !.result = Undefined]

\* NextCandidate walking the user ids from the last to the first
NextCandidate_Reversed(c, i) ==
  IF c.hasUserIds /\ i < Len(c.userIds)
  THEN [c EXCEPT !.pc = "wait", !.idx = i + 1,
                 !.reqs = Append(@, ListReq("email", c.userIds[Len(c.userIds) - i].email))]
  ELSE [c EXCEPT !.pc = "done", !.outcome = "returned", !.result = Undefined]

\* getVerfied from the candidate after index i up to its next yield or its end:
\* the for-of loop takes the next user id, or the generator ends
NextCandidate(c, i) ==
  IF c.hasUserIds /\ i < Len(c.userIds)
  THEN [c EXCEPT !.pc = "wait", !.idx = i + 1,
                 !.reqs = Append(@, ListReq("email", c.userIds[i + 1].email))]
  ELSE [c EXCEPT !.pc = "done", !.outcome = "returned", !.result = Undefined]

\* the documents that batch calls in flight may still add
Pending == LET n(p) == IF calls[p].op = "batch" /\ calls[p].pc = "wait"
                       THEN Len(calls[p].userIds) ELSE 0
           IN  n("c1") + n("c2")

(* ------------------------------------------------------ UserId: actions *)

\* batch(options) up to its yield: stamp the key id, send the insert
BatchCall(p) ==
  /\ calls[p].pc = "idle"
  /\ \E keyid \in KeyIds, n \in 0..MaxBatch :
       /\ Cardinality(store) + Pending + n <= MaxStore
       /\ \E userIds \in [1..n -> Drafts] :
          LET docs == SetKeyid(userIds, keyid)
          IN  calls' = [calls EXCEPT ![p] =
                [Idle EXCEPT !.op = "batch", !.pc = "wait", !.keyid = keyid,
                             !.hasUserIds = TRUE, !.userIds = docs,
                             !.reqs = <<[kind |-> "batch", docs |-> docs, type |-> DB_TYPE]>>]]
  /\ UNCHANGED store

\* BatchResume without the comparison of the inserted count
BatchResume_NoCheck(p) ==
  /\ calls[p].op = "batch" /\ calls[p].pc = "wait"
  /\ LET docs == calls[p].reqs[1].docs
     IN  \E S \in SUBSET (DOMAIN docs) :
           /\ store' = store \cup MongoBatch(docs, S)
           /\ calls' = [calls EXCEPT ![p] =
                [@ EXCEPT !.pc = "done", !.outcome = "returned", !.result = Undefined]]

\* the store serves the insert and batch resumes: compare the inserted count
BatchResume(p) ==
  /\ calls[p].op = "batch" /\ calls[p].pc = "wait"
  /\ LET docs == calls[p].reqs[1].docs
     IN  \E S \in SUBSET (DOMAIN docs) :
           LET r == [insertedCount |-> Cardinality(S)]
           IN  /\ store' = store \cup MongoBatch(docs, S)
               /\ calls' = [calls EXCEPT ![p] =
                    IF r.insertedCount # Len(calls[p].userIds)
                    THEN [@ EXCEPT !.pc = "done", !.outcome = "Failed to persist user ids"]
                    ELSE [@ EXCEPT !.pc = "done", !.outcome = "returned",
                                   !.result = Undefined]]

\* getVerfied(options) up to its first yield, or to its end when it has none
GetVerfiedCall(p) ==
  /\ calls[p].pc = "idle"
  /\ \E keyid \in KeyIds \cup {NoKey}, hasUserIds \in BOOLEAN,
        userIds \in SeqsUpTo(Candidates, MaxCands) :
       /\ ~hasUserIds => userIds = <<>>
       /\ LET c == [Idle EXCEPT !.op = "getVerfied", !.keyid = keyid,
                                !.hasUserIds = hasUserIds, !.userIds = userIds]
          IN  calls' = [calls EXCEPT ![p] =
                IF keyid # NoKey
                THEN [c EXCEPT !.pc = "wait", !.reqs = <<ListReq("keyid", keyid)>>]
                ELSE NextCandidate(c, 0)]
  /\ UNCHANGED store

\* GetVerfiedResume deleting the unverified documents it was handed
GetVerfiedResume_Cleanup(p) ==
  /\ calls[p].op = "getVerfied" /\ calls[p].pc = "wait"
  /\ \E uids \in MongoList(calls[p].reqs[Len(calls[p].reqs)]) :
       LET verified == FindVerified(uids)
       IN  /\ calls' = [calls EXCEPT ![p] =
                IF verified # Undefined
                THEN [@ EXCEPT !.pc = "done", !.outcome = "returned", !.result = verified]
                ELSE NextCandidate(@, @.idx)]
           /\ store' = store \ {uids[i] : i \in {j \in DOMAIN uids : ~uids[j].verified}}

\* the store serves the list and getVerfied resumes: return the first verified
\* document of the answer, or go on
GetVerfiedResume(p) ==
  /\ calls[p].op = "getVerfied" /\ calls[p].pc = "wait"
  /\ \E uids \in MongoList(calls[p].reqs[Len(calls[p].reqs)]) :
       LET verified == FindVerified(uids)
       IN  calls' = [calls EXCEPT ![p] =
             IF verified # Undefined
             THEN [@ EXCEPT !.pc = "done", !.outcome = "returned", !.result = verified]
             ELSE NextCandidate(@, @.idx)]
  /\ UNCHANGED store

\* RemoveCall reading a misspelt option, so that the filter holds no key id
RemoveCall_NoKeyid(p) ==
  /\ calls[p].pc = "idle"
  /\ \E keyid \in KeyIds :
       calls' = [calls EXCEPT ![p] =
         [Idle EXCEPT !.op = "remove", !.pc = "wait", !.keyid = keyid,
                      !.reqs = <<[kind |-> "remove", field |-> "keyid",
                                  value |-> NoKey, type |-> DB_TYPE]>>]]
  /\ UNCHANGED store

\* remove(options) up to its yield
RemoveCall(p) ==
  /\ calls[p].pc = "idle"
  /\ \E keyid \in KeyIds :
       calls' = [calls EXCEPT ![p] =
         [Idle EXCEPT !.op = "remove", !.pc = "wait", !.keyid = keyid,
                      !.reqs = <<[kind |-> "remove", field |-> "keyid",
                                  value |-> keyid, type |-> DB_TYPE]>>]]
  /\ UNCHANGED store

\* the store serves the delete and remove resumes and ends
RemoveResume(p) ==
  /\ calls[p].op = "remove" /\ calls[p].pc = "wait"
  /\ store' = MongoRemove(calls[p].reqs[1])
  /\ calls' = [calls EXCEPT ![p] =
       [@ EXCEPT !.pc = "done", !.outcome = "returned", !.result = Undefined]]

\* the caller takes the outcome of its call and may call again
Return(p) ==
  /\ calls[p].pc = "done"
  /\ calls' = [calls EXCEPT ![p] = Idle]
  /\ UNCHANGED store

Init ==
  /\ store = {}
  /\ calls = [p \in Procs |-> Idle]

Next ==
  \E p \in Procs :
    \/ BatchCall(p)
    \/ BatchResume(p)
    \/ GetVerfiedCall(p)
    \/ GetVerfiedResume(p)
    \/ RemoveCall(p)
    \/ RemoveResume(p)
    \/ Return(p)

Spec == Init /\ [][Next]_vars

\* one caller at a time: a call is made only when no other call is in flight
Quiet == \A q \in Procs : calls[q].pc = "idle"

SeqBatchCall(p) == Quiet /\ BatchCall(p)

SeqGetVerfiedCall(p) == Quiet /\ GetVerfiedCall(p)

SeqRemoveCall(p) == Quiet /\ RemoveCall(p)

NextSeq ==
  \E p \in Procs :
    \/ SeqBatchCall(p)
    \/ BatchResume(p)
    \/ SeqGetVerfiedCall(p)
    \/ GetVerfiedResume(p)
    \/ SeqRemoveCall(p)
    \/ RemoveResume(p)
    \/ Return(p)

SpecSeq == Init /\ [][NextSeq]_vars

(* ------------------------------------------------------------ the claims *)

Done(p, op) == calls[p].op = op /\ calls[p].pc = "done"

\* the verified documents of the collection with a given value in a field
Verified(field, value) == {d \in store : d[field] = value /\ d.verified}

\* a step of the call of p
Steps(p) == calls'[p] # calls[p]

\* C1: getVerfied called with a key id K and no user ids returns a verified
\* document with keyid K exactly when the collection holds one, and returns
\* undefined (no document, no error) when it holds none.
C1_KeyLookup ==
  \A p \in Procs :
    Done(p, "getVerfied") /\ calls[p].keyid # NoKey /\ ~calls[p].hasUserIds =>
      LET K == calls[p].keyid
          r == calls[p].result
      IN  /\ calls[p].outcome = "returned"
          /\ (r # Undefined) <=> (Verified("keyid", K) # {})
          /\ r # Undefined => r \in Verified("keyid", K)

\* the collection holds a verified and an unverified document of the key, and
\* the key lookup has returned the verified one
C1_Witness ==
  \E p \in Procs :
    /\ Done(p, "getVerfied") /\ calls[p].keyid # NoKey /\ ~calls[p].hasUserIds
    /\ calls[p].result \in store
    /\ \E d \in store : d.keyid = calls[p].keyid /\ ~d.verified

\* the call of p got to the email lookups: user ids were given, and no key id
\* was given or the key has no verified document
ReachedFallback(p) ==
  /\ calls[p].hasUserIds
  /\ calls[p].keyid = NoKey \/ Verified("keyid", calls[p].keyid) = {}

\* the indices of the user ids whose email has a verified document
Hits(p) == {i \in DOMAIN calls[p].userIds :
              Verified("email", calls[p].userIds[i].email) # {}}

First(S) == CHOOSE i \in S : \A j \in S : i <= j

\* C2: in the email lookups getVerfied returns a verified document of the
\* first user id, in the given order, whose email has a verified document;
\* user ids before it with unverified documents only, or none, do not end
\* the scan.
C2_FirstVerifiedCandidate ==
  \A p \in Procs :
    Done(p, "getVerfied") /\ ReachedFallback(p) =>
      IF Hits(p) = {}
      THEN calls[p].result = Undefined
      ELSE /\ calls[p].result \in Verified("email", calls[p].userIds[First(Hits(p))].email)
           /\ calls[p].idx = First(Hits(p))

\* the first user id has an unverified document only, the second a verified
\* one, and the call has returned the second's
C2_Witness ==
  \E p \in Procs :
    /\ Done(p, "getVerfied") /\ ReachedFallback(p)
    /\ Hits(p) # {} /\ First(Hits(p)) = 2
    /\ \E d \in store : d.email = calls[p].userIds[1].email /\ ~d.verified
    /\ calls[p].result.email = calls[p].userIds[2].email

\* the step in which the store serves the request of p and the call resumes
Resumes(p, op) == calls[p].op = op /\ calls[p].pc = "wait" /\ Steps(p)

\* a call that has ended issues nothing more: it rests until its caller takes
\* the outcome
Ended(p) == calls[p].pc = "done" => calls'[p] \in {calls[p], Idle}

\* C3: when the store reports an inserted count other than the number of
\* user ids, batch ends in the error 'Failed to persist user ids' having sent
\* the store the one insert and nothing else; what the store inserted stays.
C3_PartialInsertFails ==
  /\ [](\A p \in Procs :
          Done(p, "batch") /\ calls[p].outcome # "returned" =>
            /\ calls[p].outcome = "Failed to persist user ids"
            /\ Len(calls[p].reqs) = 1 /\ calls[p].reqs[1].kind = "batch")
  /\ [][\A p \in Procs :
          /\ Ended(p)
          /\ Resumes(p, "batch") /\ Cardinality(store' \ store) # Len(calls[p].userIds) =>
                /\ calls'[p].pc = "done"
                /\ calls'[p].outcome = "Failed to persist user ids"
                /\ calls'[p].reqs = calls[p].reqs
                /\ store \subseteq store']_vars

\* one of two user ids was inserted, batch has failed, and the inserted
\* document is in the collection
C3_Witness ==
  \E p \in Procs :
    /\ Done(p, "batch") /\ calls[p].outcome = "Failed to persist user ids"
    /\ Len(calls[p].userIds) = 2
    /\ Cardinality({d \in store : d.keyid = calls[p].keyid}) = 1

\* C4: when the inserted count equals the number of user ids, batch returns
\* the inserted user ids to its caller, as many as it was given.
C4_ReturnsInserted ==
  \A p \in Procs :
    Done(p, "batch") /\ calls[p].outcome = "returned" =>
      /\ calls[p].result # Undefined
      /\ Len(calls[p].result) = Len(calls[p].userIds)

\* C5: every document batch hands to the store carries the key id of the
\* call, and so does every document the store adds for it.
C5_KeyidOnEveryDoc ==
  /\ [](\A p \in Procs :
          calls[p].op = "batch" =>
            \A i \in DOMAIN calls[p].reqs[1].docs :
              calls[p].reqs[1].docs[i].keyid = calls[p].keyid)
  /\ [][\A p \in Procs :
          Resumes(p, "batch") =>
            \A d \in store' \ store : d.keyid = calls[p].keyid]_vars

\* a batch of two user ids has returned and its two documents are in the
\* collection
C5_Witness ==
  \E p \in Procs :
    /\ Done(p, "batch") /\ calls[p].outcome = "returned"
    /\ Len(calls[p].userIds) = 2
    /\ Cardinality({d \in store : d.keyid = calls[p].keyid}) = 2

\* C6: remove deletes exactly the documents of its key id and leaves the
\* others as they are; it returns normally also when nothing matches, so once
\* it has run, running it again changes nothing.
C6_RemoveExactlyKey ==
  /\ [](\A p \in Procs :
          Done(p, "remove") =>
            /\ calls[p].outcome = "returned"
            /\ Matching("keyid", calls[p].keyid) = {})
  /\ [][\A p \in Procs :
          Resumes(p, "remove") =>
            /\ store' = {d \in store : d.keyid # calls[p].keyid}
            /\ calls'[p].pc = "done" /\ calls'[p].outcome = "returned"
            /\ Matching("keyid", calls[p].keyid) = {} => store' = store]_vars

\* remove has returned, the lowest id is free again, and a document of another
\* key is still there
C6_Witness ==
  \E p \in Procs :
    /\ Done(p, "remove")
    /\ \E d \in store : d.keyid # calls[p].keyid /\ d.id = 2
    /\ \A d \in store : d.id # 1

\* C7: getVerfied never changes the collection, whatever it is given and
\* however it ends, and the only requests it sends the store are lists.
C7_ReadOnly ==
  /\ [](\A p \in Procs :
          calls[p].op = "getVerfied" =>
            \A i \in DOMAIN calls[p].reqs : calls[p].reqs[i].kind = "list")
  /\ [][\A p \in Procs :
          (calls[p].op = "getVerfied" \/ calls'[p].op = "getVerfied") /\ Steps(p) =>
            store' = store]_vars

\* a call given both a key id and user ids has returned a document it found
\* by email, after the key lookup found none
C7_Witness ==
  \E p \in Procs :
    /\ Done(p, "getVerfied") /\ calls[p].keyid # NoKey
    /\ Len(calls[p].reqs) >= 2
    /\ calls[p].result \in store

\* C8: the collection never holds two verified documents with the same email.
C8_OneVerifiedPerEmail ==
  \A d, e \in store : d.verified /\ e.verified /\ d.email = e.email => d = e

\* C9: given both a key id and user ids, getVerfied returns undefined exactly
\* when neither the key nor any user id's email has a verified document: a
\* key lookup without a verified document goes on to the emails, and one with
\* a verified document returns it and sends no email lookup.
C9_BothSupplied ==
  \A p \in Procs :
    Done(p, "getVerfied") /\ calls[p].keyid # NoKey /\ calls[p].hasUserIds =>
      /\ (calls[p].result = Undefined) <=>
            (Verified("keyid", calls[p].keyid) = {} /\ Hits(p) = {})
      /\ Verified("keyid", calls[p].keyid) # {} =>
            /\ calls[p].result \in Verified("keyid", calls[p].keyid)
            /\ Len(calls[p].reqs) = 1
      /\ Verified("keyid", calls[p].keyid) = {} /\ calls[p].userIds # <<>> =>
            Len(calls[p].reqs) >= 2

\* the key has an unverified document only, and the call has gone on to the
\* emails and returned a verified document of another key
C9_Witness ==
  \E p \in Procs :
    /\ Done(p, "getVerfied") /\ calls[p].keyid # NoKey /\ calls[p].hasUserIds
    /\ Matching("keyid", calls[p].keyid) # {}
    /\ Verified("keyid", calls[p].keyid) = {}
    /\ calls[p].result \in store

\* the lists getVerfied sends when nothing is found: the key id first, if
\* there is one, then the email of every user id in the given order
AllLookups(c) ==
  (IF c.keyid # NoKey THEN <<ListReq("keyid", c.keyid)>> ELSE <<>>)
    \o [i \in DOMAIN c.userIds |-> ListReq("email", c.userIds[i].email)]

\* C10: getVerfied sends its lists one at a time, each after the answer to
\* the one before: the key id first, then the emails in the order given, at
\* most one more than there are user ids, and none after an answer that holds
\* a verified document.
C10_LookupOrder ==
  /\ [](\A p \in Procs :
          calls[p].op = "getVerfied" =>
            /\ Len(calls[p].reqs) <= 1 + Len(calls[p].userIds)
            /\ calls[p].reqs = SubSeq(AllLookups(calls[p]), 1, Len(calls[p].reqs))
            /\ calls[p].pc = "wait" => calls[p].reqs # <<>>)
  /\ [][\A p \in Procs :
          /\ Ended(p)
          /\ Resumes(p, "getVerfied") =>
                LET last == calls[p].reqs[Len(calls[p].reqs)]
                IN  /\ Len(calls'[p].reqs) <= Len(calls[p].reqs) + 1
                    /\ Verified(last.field, last.value) # {} =>
                          /\ calls'[p].pc = "done"
                          /\ calls'[p].reqs = calls[p].reqs]_vars

\* a call has sent the key lookup and one lookup for each of two user ids
C10_Witness ==
  \E p \in Procs :
    /\ Done(p, "getVerfied")
    /\ Len(calls[p].userIds) = 2
    /\ Len(calls[p].reqs) = 3

====
